---- MODULE Spec2Model ----
(***************************************************************************)
(* SeedboxSync: the sync orchestrator (class Downloader) and the resumable *)
(* transfer (class FtpDownloader), as state machines.                      *)
(*                                                                         *)
(* Spec         the Downloader: syncRequest, startSync, the drain loop     *)
(*              downloadNextInQueue, the jsftp callbacks and events.       *)
(* SpecLive     Spec, with armed timers firing.                            *)
(* SpecDrain    Spec, with pending gets answered.                          *)
(* SpecTransfer FtpDownloader.start attempts over a session pool and a     *)
(*              file system with temp files.                               *)
(* SpecSymlink  SpecTransfer, with the size lookups of updateFileSizes     *)
(*              outstanding.                                               *)
(* SpecFlatten  processFilesJSON on bounded listings.                      *)
(* SpecPath     getDestinationDirectory on bounded configurations.         *)
(***************************************************************************)
EXTENDS Integers, Sequences, FiniteSets, TLC

\* ------------------------------------------------------------------ bounds
MaxCountMax == 2    \* config.downloads.countMax ranges over 1..MaxCountMax
MaxFiles    == 2    \* entries a listing yields
MaxWork     == 5    \* calls of startSync + calls of ftp.get + 'error'/'timeout' events

\* ------------------------------------------------------------- Downloader
VARIABLES
    countMax,                       \* config.downloads.countMax
    downloading,                    \* Downloader.downloading
    syncRequestedWhileDownloading,  \* Downloader.syncRequestedWhileDownloading
    lastRunHadStuffToDownload,      \* Downloader.lastRunHadStuffToDownload
    downloadQueue,                  \* Seq of FtpFile identities
    completedList,                  \* Seq of FtpFile identities
    ftpConnectionPool,              \* Seq of session identities (a stack)
    pollingTimeoutId,               \* 0 or the id of the last timer armed
    fileDownloading,                \* the FtpFile objects whose downloading flag is true
    listeners,                      \* session -> Seq of attempts: its 'error'/'timeout' listeners
    attempts,                       \* Seq of [file, ftp, pending, term, returns]: one per ftp.get
    scans,                          \* Seq of [pending, failed]: one per scan session
    timers,                         \* ids of the armed timers that have not fired
    nFiles, nEvents,                \* FtpFile objects created, events emitted
    requestPending,                 \* history: a syncRequest arrived while downloading, no scan since
    cycleHadWork,                   \* history: the last listing loaded held entries
    servedRequest,                  \* history: a completion started a scan while requestPending
    armedWithRequest,               \* history: a completion armed the timer while requestPending
    armedAfterWork,                 \* history: a completion armed the timer while cycleHadWork
    overlapStart                    \* history: startSync ran with a scan or a transfer outstanding

dvars == <<countMax, downloading, syncRequestedWhileDownloading, lastRunHadStuffToDownload,
           downloadQueue, completedList, ftpConnectionPool, pollingTimeoutId, fileDownloading,
           listeners, attempts, scans, timers, nFiles, nEvents,
           requestPending, cycleHadWork, servedRequest, armedWithRequest, armedAfterWork, overlapStart>>

\* FtpDownloader, FtpController and the file system.
VARIABLES
    tPool,          \* FtpController's pool: Seq of sessions
    tListeners,     \* session -> Seq of attempts: once(downloadDone) on 'error' and 'timeout'
    xfers,          \* Seq of attempt records, one per FtpDownloader.start
    eDownloading,   \* entry -> file.downloading
    eTransferred,   \* entry -> file.transferred
    eSize,          \* entry -> file.size
    tempFile,       \* entry -> content of tempPath, or NoFile
    finalFile,      \* entry -> content of localPath, or NoFile
    fdTable,        \* descriptor number -> entry whose temp file it has open, or 0
    sizeLookup      \* entry -> the ftp.ls of updateFileSizes for it has not called back

tvars == <<tPool, tListeners, xfers, eDownloading, eTransferred, eSize, tempFile,
           finalFile, fdTable, sizeLookup>>

\* The inputs and results of the pure functions processFilesJSON and
\* getDestinationDirectory.
VARIABLES
    flData,         \* processFilesJSON: the hierarchical listing (data)
    flDepth,        \* processFilesJSON: depth
    flRan,          \* processFilesJSON has been called
    flReturn,       \* what the call returned: "list" or "undefined"
    flOut,          \* outList after the call
    gdMappings,     \* config.pathMappings: Seq of [remotePath, localPath]
    gdDirectory,    \* getDestinationDirectory: file.relativeDirectory
    gdRan,          \* getDestinationDirectory has been called
    gdResult,       \* the string it returned
    gdRule          \* history: the index of the rule it returned from, 0 for the default

pvars == <<flData, flDepth, flRan, flReturn, flOut,
           gdMappings, gdDirectory, gdRan, gdResult, gdRule>>

\* The Downloader and its environment as one record, so that a handler is a
\* function from state to state and handlers compose as the code calls them.
DState ==
    [dl |-> downloading, req |-> syncRequestedWhileDownloading,
     had |-> lastRunHadStuffToDownload, queue |-> downloadQueue,
     done |-> completedList, pool |-> ftpConnectionPool, tid |-> pollingTimeoutId,
     fdl |-> fileDownloading, lst |-> listeners, att |-> attempts, scans |-> scans,
     timers |-> timers, nFiles |-> nFiles, nEvents |-> nEvents,
     rp |-> requestPending, work |-> cycleHadWork, srv |-> servedRequest,
     awr |-> armedWithRequest,
     aaw |-> armedAfterWork, ovl |-> overlapStart]

SetD(s) ==
    /\ downloading' = s.dl
    /\ syncRequestedWhileDownloading' = s.req
    /\ lastRunHadStuffToDownload' = s.had
    /\ downloadQueue' = s.queue
    /\ completedList' = s.done
    /\ ftpConnectionPool' = s.pool
    /\ pollingTimeoutId' = s.tid
    /\ fileDownloading' = s.fdl
    /\ listeners' = s.lst
    /\ attempts' = s.att
    /\ scans' = s.scans
    /\ timers' = s.timers
    /\ nFiles' = s.nFiles
    /\ nEvents' = s.nEvents
    /\ requestPending' = s.rp
    /\ cycleHadWork' = s.work
    /\ servedRequest' = s.srv
    /\ armedWithRequest' = s.awr
    /\ armedAfterWork' = s.aaw
    /\ overlapStart' = s.ovl
    /\ UNCHANGED <<countMax, tvars, pvars>>

\* The attempts whose handler (ftpDownloadError or the get callback) has not run.
InFlight(s) == {a \in 1..Len(s.att) : ~s.att[a].term}

\* The scans whose lsr callback is still to come and that no ftpScanError has ended.
ScanOutstanding(s) == \E k \in 1..Len(s.scans) : s.scans[k].pending /\ ~s.scans[k].failed

\* startSync: clear the request flag, become Syncing, cancel the timer, open a
\* scan session with ftpScanError on 'error' and 'timeout', and call lsr.
startSync(s) ==
    [s EXCEPT !.req = FALSE,
              !.dl = TRUE,
              !.timers = IF s.tid # 0 THEN s.timers \ {s.tid} ELSE s.timers,
              !.tid = 0,
              !.scans = Append(s.scans, [pending |-> TRUE, failed |-> FALSE]),
              !.rp = FALSE,
              !.work = FALSE,
              !.ovl = s.ovl \/ ScanOutstanding(s) \/ InFlight(s) # {}]

\* syncRequest without the assignment of line 49: the request is dropped.
syncRequestDropped(s) ==
    IF s.dl THEN [s EXCEPT !.rp = TRUE]
    ELSE startSync(s)

\* syncRequest
syncRequest(s) ==
    IF s.dl THEN [s EXCEPT !.req = TRUE, !.rp = TRUE]
    ELSE startSync(s)

\* setTimeout: a timer id that no armed timer has.
NewTimer(s) == CHOOSE t \in 1..(Cardinality(s.timers) + 1) : t \notin s.timers

\* downloadCompleteCallback
downloadCompleteCallback(s) ==
    LET s1 == [s EXCEPT !.dl = FALSE] IN
    IF s1.had \/ s1.req
    THEN startSync([s1 EXCEPT !.srv = s.srv \/ s.rp])
    ELSE [s1 EXCEPT !.tid = NewTimer(s),
                    !.timers = s.timers \cup {NewTimer(s)},
                    !.awr = s.awr \/ s.rp,
                    !.aaw = s.aaw \/ s.work]

\* getNextFileToDownload: the first entry not downloading, if fewer than
\* countMax entries are downloading; 0 stands for null.
NotDownloadingIdx(s) == {i \in 1..Len(s.queue) : s.queue[i] \notin s.fdl}

DownloadingCount(s) == Cardinality({i \in 1..Len(s.queue) : s.queue[i] \in s.fdl})

\* getNextFileToDownload with the cap test off by one (<= for <).
getNextFileToDownloadOffByOne(s) ==
    IF DownloadingCount(s) <= countMax /\ NotDownloadingIdx(s) # {}
    THEN s.queue[CHOOSE i \in NotDownloadingIdx(s) : \A j \in NotDownloadingIdx(s) : i <= j]
    ELSE 0

getNextFileToDownload(s) ==
    IF DownloadingCount(s) < countMax /\ NotDownloadingIdx(s) # {}
    THEN s.queue[CHOOSE i \in NotDownloadingIdx(s) : \A j \in NotDownloadingIdx(s) : i <= j]
    ELSE 0

\* removeFileFromQueue
removeFileFromQueue(f, q) == SelectSeq(q, LAMBDA x : x # f)

\* ftpForDownloading: the session the pool's pop yields, or a new one.
NewSession(s) == Len(s.lst) + 1

ftpForDownloading(s) ==
    IF Len(s.pool) > 0 THEN s.pool[Len(s.pool)] ELSE NewSession(s)

\* downloadNextInQueue: dispatch the next entry on a borrowed session, register
\* ftpDownloadError on its 'error' and 'timeout', call ftp.get, and re-enter.
RECURSIVE downloadNextInQueue(_)
downloadNextInQueue(s0) ==
    LET run(s) ==
          LET file == getNextFileToDownload(s) IN
          IF file = 0
          THEN IF Len(s.queue) = 0 THEN downloadCompleteCallback(s) ELSE s
          ELSE LET ftp == ftpForDownloading(s)
                   a == Len(s.att) + 1
                   lst1 == IF ftp = NewSession(s) THEN Append(s.lst, <<>>) ELSE s.lst
               IN downloadNextInQueue(
                    [s EXCEPT !.fdl = s.fdl \cup {file},
                              !.pool = IF Len(s.pool) > 0
                                       THEN SubSeq(s.pool, 1, Len(s.pool) - 1)
                                       ELSE s.pool,
                              !.lst = [lst1 EXCEPT ![ftp] = Append(lst1[ftp], a)],
                              !.att = Append(s.att, [file |-> file, ftp |-> ftp,
                                                     pending |-> TRUE, term |-> FALSE,
                                                     returns |-> 0])])
    IN \* the state the function is called in is evaluated once
       CHOOSE r \in {run(s) : s \in {s0}} : TRUE

\* doneWithFtpObj, as attempt a's closure calls it (returns counts the calls
\* per borrow: 0, 1, or 2 for twice and more).
doneWithFtpObj(s, a) ==
    [s EXCEPT !.pool = Append(s.pool, s.att[a].ftp),
              !.att[a].term = TRUE,
              !.att[a].returns = IF s.att[a].returns < 2 THEN s.att[a].returns + 1 ELSE 2]

\* ftpDownloadError without the assignment file.downloading = false.
ftpDownloadErrorKeepsFlag(s, a) ==
    downloadNextInQueue(doneWithFtpObj(s, a))

\* ftpDownloadError of attempt a (the closure over its file and ftp).
ftpDownloadError(s, a) ==
    downloadNextInQueue(
        doneWithFtpObj([s EXCEPT !.fdl = s.fdl \ {s.att[a].file}], a))

\* The success path of attempt a's get callback.
getSucceeded(s, a) ==
    downloadNextInQueue(
        doneWithFtpObj([s EXCEPT !.done = Append(s.done, s.att[a].file),
                                 !.queue = removeFileFromQueue(s.att[a].file, s.queue)], a))

\* A session's emit: every listener registered when the event is emitted is
\* called, in registration order.
RECURSIVE emit(_, _)
emit(s, ls) ==
    IF ls = <<>> THEN s ELSE emit(ftpDownloadError(s, Head(ls)), Tail(ls))

\* FtpFile.sortNewestFirst over the listing: ids in listing order, dates[i]
\* the modification time of the i-th; newest first, stable.
RECURSIVE sortNewestFirst(_, _)
sortNewestFirst(ids, dates) ==
    IF ids = <<>> THEN <<>>
    ELSE LET m == CHOOSE i \in 1..Len(ids) :
                    /\ \A j \in 1..Len(ids) : dates[j] <= dates[i]
                    /\ \A j \in 1..(i - 1) : dates[j] < dates[i]
             drop(q) == [k \in 1..(Len(q) - 1) |-> IF k < m THEN q[k] ELSE q[k + 1]]
         IN <<ids[m]>> \o sortNewestFirst(drop(ids), drop(dates))

\* ftpScanError that only logs: downloadCompleteCallback is not called.
ftpScanErrorLogOnly(s, k) ==
    [s EXCEPT !.scans[k].failed = TRUE, !.work = FALSE]

\* ftpScanError of scan k: the cycle ends as one with no work.
ftpScanError(s, k) ==
    downloadCompleteCallback([s EXCEPT !.scans[k].failed = TRUE, !.work = FALSE])

\* ---------------------------------------------------------------- actions
Bounded(s) ==
    Len(s.scans) + Len(s.att) + s.nEvents <= MaxWork

Step(s0) == \E s \in {s0} : Bounded(s) /\ SetD(s)

\* An external sync request (the HTTP trigger).
SyncRequest == \E s \in {syncRequest(DState)} : Step(s)

\* An armed polling timer fires: syncRequest.
TimerFire ==
    \E t \in timers : Step(syncRequest([DState EXCEPT !.timers = timers \ {t}]))

\* The lsr callback of scan k with an error: ftpScanError.
LsrError ==
    \E k \in 1..Len(scans) :
        /\ scans[k].pending
        /\ Step(ftpScanError([DState EXCEPT !.scans[k].pending = FALSE], k))

\* The lsr callback of scan k with a listing of n entries: processFilesJSON
\* builds n new FtpFile objects, updateFileSizes issues the size lookups (they
\* touch FtpFile.size only), the queue is sorted and the drain starts.
LsrData ==
    \E k \in 1..Len(scans), n \in 0..MaxFiles :
      \E dates \in [1..n -> 1..2] :
        /\ scans[k].pending
        /\ LET ids == [i \in 1..n |-> nFiles + i] IN
           Step(downloadNextInQueue(
                  [DState EXCEPT !.scans[k].pending = FALSE,
                                 !.queue = sortNewestFirst(ids, dates),
                                 !.nFiles = nFiles + n,
                                 !.work = n > 0]))

\* The scan session of scan k emits 'error' or 'timeout': ftpScanError.
ScanSessionEvent ==
    \E k \in 1..Len(scans) :
        Step(ftpScanError([DState EXCEPT !.nEvents = nEvents + 1], k))

\* The get callback of attempt a with an error.
GetError ==
    \E a \in 1..Len(attempts) :
        /\ attempts[a].pending
        /\ Step(ftpDownloadError([DState EXCEPT !.att[a].pending = FALSE], a))

\* The get callback of attempt a without error.
GetSuccess ==
    \E a \in 1..Len(attempts) :
        /\ attempts[a].pending
        /\ Step(getSucceeded([DState EXCEPT !.att[a].pending = FALSE], a))

\* A download session emits 'error' or 'timeout'.
SessionEvent ==
    \E f \in 1..Len(listeners) :
        Step(emit([DState EXCEPT !.nEvents = nEvents + 1], listeners[f]))


\* ---------------------------------------------------------- FtpDownloader
NEntries     == 2   \* entries the transfers are about
TotalBytes   == 2   \* bytes of each remote file
MaxTransfers == 2   \* calls of FtpDownloader.start
MaxFd        == 2   \* descriptor numbers the process hands out

NoFile == <<-1>>     \* no file at that path (no byte is negative)
NoErr  == "none"

Entries == 1..NEntries

\* The bytes of entry e's remote file: byte i is 10 * e + i.
Remote(e) == [i \in 1..TotalBytes |-> 10 * e + i]

Prefixes(e) == {SubSeq(Remote(e), 1, k) : k \in 0..TotalBytes}

TState ==
    [pool |-> tPool, lst |-> tListeners, x |-> xfers, dl |-> eDownloading,
     tr |-> eTransferred, size |-> eSize, temp |-> tempFile, final |-> finalFile,
     fds |-> fdTable]

SetT(s) ==
    /\ tPool' = s.pool
    /\ tListeners' = s.lst
    /\ xfers' = s.x
    /\ eDownloading' = s.dl
    /\ eTransferred' = s.tr
    /\ eSize' = s.size
    /\ tempFile' = s.temp
    /\ finalFile' = s.final
    /\ fdTable' = s.fds
    /\ UNCHANGED <<sizeLookup, dvars, pvars>>

\* FtpController.ftpForDownloading: pop a pooled session, or create one.
tNewSession(s) == Len(s.lst) + 1

tFtpForDownloading(s) ==
    IF Len(s.pool) > 0 THEN s.pool[Len(s.pool)] ELSE tNewSession(s)

\* FtpController.doneWithFtpObj: back into the pool, unconditionally.
tDoneWithFtpObj(s, a) ==
    [s EXCEPT !.pool = Append(s.pool, s.x[a].ftp),
              !.x[a].releases = s.x[a].releases + 1]

\* The size check with the comparison inverted.
IncompleteInverted(localSize, size) == localSize > size

\* The size check of downloadDone: the temp file holds fewer bytes than file.size.
Incomplete(localSize, size) == localSize < size

\* The body of downloadDone for attempt a, called with err; closeFails and
\* renameFails are what closeSync and renameSync do this time.
downloadDoneBody(s, a, err, closeFails, renameFails) ==
    LET e  == s.x[a].file
        fd == s.x[a].fd
        \* socket.destroy(), FtpController.doneWithFtpObj(ftp)
        s1 == tDoneWithFtpObj(
                [s EXCEPT !.x[a].socket = IF s.x[a].socket = "open" THEN "destroyed"
                                          ELSE s.x[a].socket], a)
        \* fs.closeSync(fd)
        s2 == IF fd # 0 THEN [s1 EXCEPT !.fds[fd] = 0] ELSE s1
        err2 == IF fd # 0 /\ closeFails THEN "close" ELSE err
        \* fs.statSync(tempPath).size < file.size
        err3 == IF err2 = NoErr /\ Incomplete(Len(s2.temp[e]), s2.size[e])
                THEN "incomplete" ELSE err2
        \* fs.renameSync(tempPath, localPath)
        s3 == IF err3 = NoErr /\ ~renameFails
              THEN [s2 EXCEPT !.final[e] = s2.temp[e], !.temp[e] = NoFile]
              ELSE s2
        err4 == IF err3 = NoErr /\ renameFails THEN "rename" ELSE err3
    IN [s3 EXCEPT !.dl[e] = FALSE,
                  !.x[a].finalized = s.x[a].finalized + 1,
                  !.x[a].cbCount = s.x[a].cbCount + 1,
                  !.x[a].cbErr = err4,
                  !.x[a].cbEntry = e]

\* downloadDone without the once() wrapper of line 105.
downloadDoneEveryCall(s, a, err, closeFails, renameFails) ==
    downloadDoneBody([s EXCEPT !.x[a].calls = IF s.x[a].calls < 2 THEN s.x[a].calls + 1 ELSE 2,
                               !.x[a].called = TRUE],
                     a, err, closeFails, renameFails)

\* once(downloadDone): the body runs on the first call only (calls counts the
\* calls: 0, 1, or 2 for twice and more).
downloadDone(s, a, err, closeFails, renameFails) ==
    LET s0 == [s EXCEPT !.x[a].calls = IF s.x[a].calls < 2 THEN s.x[a].calls + 1 ELSE 2] IN
    IF s.x[a].called THEN s0
    ELSE downloadDoneBody([s0 EXCEPT !.x[a].called = TRUE], a, err, closeFails, renameFails)

\* FtpDownloader.start for entry e: openOk and fd are what openSync does.
start(s, e, openOk, fd) ==
    LET a   == Len(s.x) + 1
        ftp == tFtpForDownloading(s)
        lst1 == IF ftp = tNewSession(s) THEN Append(s.lst, <<>>) ELSE s.lst
        k0  == IF s.temp[e] = NoFile THEN 0 ELSE Len(s.temp[e])
        rec == [file |-> e, ftp |-> ftp, fd |-> 0, socket |-> "none",
                sockPending |-> FALSE, skipBytes |-> 0, bytesRead |-> 0,
                called |-> FALSE, k0 |-> k0, tr0 |-> -1, calls |-> 0,
                finalized |-> 0, releases |-> 0, cbCount |-> 0, cbErr |-> NoErr,
                cbEntry |-> 0]
        s1 == [s EXCEPT !.dl[e] = TRUE,
                        !.pool = IF Len(s.pool) > 0 THEN SubSeq(s.pool, 1, Len(s.pool) - 1)
                                 ELSE s.pool,
                        !.lst = [lst1 EXCEPT ![ftp] = Append(lst1[ftp], a)],
                        !.x = Append(s.x, rec)]
    IN IF ~openOk
       THEN downloadDone(s1, a, "open", FALSE, FALSE)
       ELSE LET temp1 == IF s.temp[e] = NoFile THEN <<>> ELSE s.temp[e]
                skipBytes == Len(temp1)
            IN [s1 EXCEPT !.temp[e] = temp1,
                          !.fds[fd] = e,
                          !.x[a].fd = fd,
                          !.x[a].skipBytes = skipBytes,
                          !.tr[e] = skipBytes,
                          !.x[a].tr0 = skipBytes,
                          !.x[a].sockPending = TRUE]

\* The getGetSocket callback of attempt a.
getGetSocketCallback(s, a, err, closeFails, renameFails) ==
    LET s1 == [s EXCEPT !.x[a].sockPending = FALSE] IN
    IF err THEN downloadDone(s1, a, "stream", closeFails, renameFails)
    ELSE [s1 EXCEPT !.x[a].socket = "open"]

\* The 'data' handler of attempt a's socket for a chunk of n bytes:
\* fs.writeSync(fd, p, 0, p.length, null) appends to whatever file the
\* descriptor number has open now, and throws when it has none open; then
\* file.transferred = sock.bytesRead + skipBytes.
onData(s, a, n) ==
    LET e     == s.x[a].file
        pos   == s.x[a].skipBytes + s.x[a].bytesRead
        chunk == SubSeq(Remote(e), pos + 1, pos + n)
        owner == s.fds[s.x[a].fd]
        s1    == [s EXCEPT !.x[a].bytesRead = s.x[a].bytesRead + n]
    IN IF owner = 0 THEN s1
       ELSE [s1 EXCEPT !.temp[owner] = s.temp[owner] \o chunk,
                       !.tr[e] = s.x[a].bytesRead + n + s.x[a].skipBytes]

\* A session's emit of 'error' (downloadDone(err)) or 'timeout'
\* (downloadDone('timeout')): every listener, in order.
RECURSIVE tEmit(_, _, _, _, _)
tEmit(s, ls, err, closeFails, renameFails) ==
    IF ls = <<>> THEN s
    ELSE tEmit(downloadDone(s, Head(ls), err, closeFails, renameFails), Tail(ls),
               err, closeFails, renameFails)

\* ------------------------------------------------------ transfer actions
\* The caller picks an entry that is not downloading and not yet published.
StartTransfer ==
    \E e \in Entries, openOk \in BOOLEAN, fd \in 1..MaxFd :
        /\ Len(xfers) < MaxTransfers
        /\ ~eDownloading[e]
        /\ finalFile[e] = NoFile
        /\ openOk => fdTable[fd] = 0
        /\ ~openOk => fd = 1
        /\ SetT(start(TState, e, openOk, fd))

GetSocketCallback ==
    \E a \in 1..Len(xfers), err, closeFails, renameFails \in BOOLEAN :
        /\ xfers[a].sockPending
        /\ SetT(getGetSocketCallback(TState, a, err, closeFails, renameFails))

SockData ==
    \E a \in 1..Len(xfers) :
      \E n \in 1..(TotalBytes - (xfers[a].skipBytes + xfers[a].bytesRead)) :
        /\ xfers[a].socket = "open"
        /\ SetT(onData(TState, a, n))

\* The socket's 'close' event, with hadError as its argument; a destroyed
\* socket emits it too.
SockClose ==
    \E a \in 1..Len(xfers), hadError, closeFails, renameFails \in BOOLEAN :
        /\ xfers[a].socket \in {"open", "destroyed"}
        /\ xfers[a].socket = "destroyed" => ~hadError
        /\ SetT(downloadDone([TState EXCEPT !.x[a].socket = "closed"], a,
                             IF hadError THEN "socket" ELSE NoErr, closeFails, renameFails))

\* The entries that are symlinks: the listing gives the size of the link, and
\* updateFileSizes asks for the size of the target.
SymLinks == {1}

\* FtpFile.setTargetData: the entry takes the size of the link's target.
setTargetData(sizes, e) == [sizes EXCEPT ![e] = TotalBytes]

\* The ftp.ls callback of updateFileSizes for symlink e: on success
\* file.setTargetData(data[0]) sets the size of the target; on an error, or
\* when the answer is not one item, the size stays as it is.
SizeLookup ==
    \E e \in SymLinks, ok \in BOOLEAN :
        /\ sizeLookup[e]
        /\ sizeLookup' = [sizeLookup EXCEPT ![e] = FALSE]
        /\ eSize' = IF ok THEN setTargetData(eSize, e) ELSE eSize
        /\ UNCHANGED <<tPool, tListeners, xfers, eDownloading, eTransferred, tempFile,
                       finalFile, fdTable, dvars, pvars>>

TransferSessionEvent ==
    \E f \in 1..Len(tListeners), closeFails, renameFails \in BOOLEAN :
        /\ \E i \in 1..Len(tListeners[f]) : ~xfers[tListeners[f][i]].called
        /\ SetT(tEmit(TState, tListeners[f], "session", closeFails, renameFails))

\* ------------------------------------------------------ processFilesJSON
MaxWidth == 2   \* nodes of one directory listing
MaxNest  == 2   \* directory levels below the listing's root

\* A string is a sequence of characters; the i-th node of a listing is named
\* Names[i] (the names of one directory are distinct).
Names == <<"a", "b", "c", "d">>

\* FtpFile.appendSlash: the path, terminated by the separator.
appendSlash(path) ==
    IF Len(path) = 0 \/ path[Len(path)] = "/" THEN path ELSE path \o <<"/">>

SeqsUpTo(S, n) == UNION {[1..k -> S] : k \in 0..n}

\* The nodes jsftp's lsr yields: files, symlinks, nodes of another type,
\* directories without a children object, and directories with children.
LeafNodes ==
    {[type |-> ty, hasChildren |-> FALSE, children |-> <<>>] :
        ty \in {"file", "link", "other", "dir"}}

RECURSIVE Listings(_)
Listings(nest) ==
    SeqsUpTo(LeafNodes \cup
             (IF nest = 0 THEN {}
              ELSE {[type |-> "dir", hasChildren |-> TRUE, children |-> c] :
                       c \in Listings(nest - 1)}),
             MaxWidth)

\* The depth test of line 340 with 1 for 0.
DepthReachedOffByOne(depth) == depth <= 1

\* The depth test of processFilesJSON (line 340).
DepthReached(depth) == depth = 0

\* processFilesJSON(data, basePath, depth, relativePath, outList): ret is what
\* the call returns, out is outList as the call leaves it. The for loop over
\* data is the recursion on i.
RECURSIVE processFilesJSON(_, _, _, _)
RECURSIVE processFilesLoop(_, _, _, _, _)
processFilesLoop(data, i, depth, relativePath, outList) ==
    IF i > Len(data) THEN outList
    ELSE LET file == data[i]
             out1 ==
               IF file.type \in {"link", "file"}
               THEN Append(outList, [relativeDirectory |-> relativePath,
                                     name |-> Names[i], type |-> file.type])
               ELSE IF file.type = "dir" /\ file.hasChildren
               THEN processFilesJSON(file.children, depth - 1,
                                     relativePath \o <<Names[i]>>, outList).out
               ELSE outList
         IN processFilesLoop(data, i + 1, depth, relativePath, out1)

processFilesJSON(data, depth, relativePath, outList) ==
    LET rp == appendSlash(relativePath) IN
    IF DepthReached(depth) THEN [ret |-> "undefined", out |-> outList]
    ELSE [ret |-> "list", out |-> processFilesLoop(data, 1, depth, rp, outList)]

\* The call of the lsr callback: processFilesJSON(data, syncFolder, depth).
Flatten ==
    /\ ~flRan
    /\ LET r == processFilesJSON(flData, flDepth, <<>>, <<>>) IN
       /\ flRan' = TRUE
       /\ flReturn' = r.ret
       /\ flOut' = r.out
    /\ UNCHANGED <<flData, flDepth, dvars, tvars>>
    /\ UNCHANGED <<gdMappings, gdDirectory, gdRan, gdResult, gdRule>>

InitFlattenIdle ==
    /\ flData = <<>>
    /\ flDepth = 1
    /\ flRan = FALSE
    /\ flReturn = "undefined"
    /\ flOut = <<>>

InitPathIdle ==
    /\ gdMappings = <<>>
    /\ gdDirectory = <<>>
    /\ gdRan = FALSE
    /\ gdResult = <<>>
    /\ gdRule = 0

InitPure == InitFlattenIdle /\ InitPathIdle

InitFlatten ==
    /\ flData \in Listings(MaxNest)
    /\ flDepth \in 1..(MaxNest + 1)
    /\ flRan = FALSE
    /\ flReturn = "undefined"
    /\ flOut = <<>>
    /\ InitPathIdle

\* ---------------------------------------------- getDestinationDirectory
MaxRules   == 2   \* rules in config.pathMappings
MaxPathLen == 2   \* characters of a rule's remotePath
MaxDirLen  == 4   \* characters of relativeDirectory

Chars == {"t", "/"}

\* config.localSyncRoot and the localPath values of the rules.
localSyncRoot == <<"R">>

LocalPaths == {<<"X">>, <<"Y", "/">>}

\* String.prototype.indexOf: the first position (from 0) at which sub occurs
\* in str, or -1.
indexOf(str, sub) ==
    LET at == {i \in 0..(Len(str) - Len(sub)) : SubSeq(str, i + 1, i + Len(sub)) = sub}
    IN IF at = {} THEN -1 ELSE CHOOSE i \in at : \A j \in at : i <= j

\* String.prototype.substring(from)
substring(str, from) == SubSeq(str, from + 1, Len(str))

\* The separator appended to remotePath although it does not end with one
\* is left out: the rule is compared as it is written.
remoteDirectoryOfRuleBare(pathMap) == pathMap.remotePath

\* pathMapDirectory of line 222.
remoteDirectoryOfRule(pathMap) == appendSlash(pathMap.remotePath)

\* getDestinationDirectory: the for loop over config.pathMappings is the
\* recursion on i; rule is the index of the rule the result comes from.
RECURSIVE getDestinationDirectory(_, _, _)
getDestinationDirectory(mappings, i, remoteDirectory) ==
    IF i > Len(mappings)
    THEN [dir |-> appendSlash(localSyncRoot) \o remoteDirectory, rule |-> 0]
    ELSE LET pathMapDirectory == remoteDirectoryOfRule(mappings[i]) IN
         IF indexOf(remoteDirectory, pathMapDirectory) = 0
         THEN [dir |-> appendSlash(mappings[i].localPath)
                          \o substring(remoteDirectory, Len(pathMapDirectory)),
               rule |-> i]
         ELSE getDestinationDirectory(mappings, i + 1, remoteDirectory)

\* The call of downloadNextInQueue: this.getDestinationDirectory(file).
MapPath ==
    /\ ~gdRan
    /\ LET r == getDestinationDirectory(gdMappings, 1, gdDirectory) IN
       /\ gdRan' = TRUE
       /\ gdResult' = r.dir
       /\ gdRule' = r.rule
    /\ UNCHANGED <<gdMappings, gdDirectory, dvars, tvars>>
    /\ UNCHANGED <<flData, flDepth, flRan, flReturn, flOut>>

\* relativeDirectory is empty or ends with the separator (processFilesJSON
\* builds it with appendSlash).
InitPath ==
    /\ gdMappings \in SeqsUpTo([remotePath : SeqsUpTo(Chars, MaxPathLen),
                                localPath : LocalPaths], MaxRules)
    /\ gdDirectory \in {d \in SeqsUpTo(Chars, MaxDirLen) : appendSlash(d) = d}
    /\ gdRan = FALSE
    /\ gdResult = <<>>
    /\ gdRule = 0
    /\ InitFlattenIdle

InitDownloader ==
    /\ countMax \in 1..MaxCountMax
    /\ downloading = FALSE
    /\ syncRequestedWhileDownloading = FALSE
    /\ lastRunHadStuffToDownload = FALSE
    /\ downloadQueue = <<>>
    /\ completedList = <<>>
    /\ ftpConnectionPool = <<>>
    /\ pollingTimeoutId = 0
    /\ fileDownloading = {}
    /\ listeners = <<>>
    /\ attempts = <<>>
    /\ scans = <<>>
    /\ timers = {}
    /\ nFiles = 0
    /\ nEvents = 0
    /\ requestPending = FALSE
    /\ cycleHadWork = FALSE
    /\ servedRequest = FALSE
    /\ armedWithRequest = FALSE
    /\ armedAfterWork = FALSE
    /\ overlapStart = FALSE

Next ==
    \/ SyncRequest
    \/ TimerFire
    \/ LsrError
    \/ LsrData
    \/ ScanSessionEvent
    \/ GetError
    \/ GetSuccess
    \/ SessionEvent

InitTransfer ==
    /\ tPool = <<>>
    /\ tListeners = <<>>
    /\ xfers = <<>>
    /\ eDownloading = [e \in Entries |-> FALSE]
    /\ eTransferred = [e \in Entries |-> 0]
    /\ eSize = [e \in Entries |-> TotalBytes]
    /\ tempFile \in [Entries -> {NoFile} \cup UNION {Prefixes(e) : e \in Entries}]
    /\ \A e \in Entries : tempFile[e] \in {NoFile} \cup Prefixes(e)
    /\ finalFile = [e \in Entries |-> NoFile]
    /\ fdTable = [d \in 1..MaxFd |-> 0]
    /\ sizeLookup = [e \in Entries |-> FALSE]

NextTransfer ==
    \/ StartTransfer
    \/ GetSocketCallback
    \/ SockData
    \/ SockClose
    \/ TransferSessionEvent

vars == <<dvars, tvars, pvars>>

\* The Downloader, with no transfer of the FtpDownloader class running.
Init ==
    /\ InitDownloader
    /\ InitTransfer
    /\ InitPure
    /\ tempFile = [e \in Entries |-> NoFile]

Spec == Init /\ [][Next]_vars

\* FtpDownloader.start attempts, with the Downloader idle.
InitT ==
    /\ InitDownloader
    /\ countMax = 1
    /\ InitTransfer
    /\ InitPure

SpecTransfer == InitT /\ [][NextTransfer]_vars

\* processFilesJSON applied to every listing within the bounds.
InitF ==
    /\ InitDownloader
    /\ countMax = 1
    /\ InitTransfer
    /\ tempFile = [e \in Entries |-> NoFile]
    /\ InitFlatten

NextFlatten == Flatten

SpecFlatten == InitF /\ [][NextFlatten]_vars

\* getDestinationDirectory applied to every configuration and directory
\* within the bounds.
InitP ==
    /\ InitDownloader
    /\ countMax = 1
    /\ InitTransfer
    /\ tempFile = [e \in Entries |-> NoFile]
    /\ InitPath

NextPath == MapPath

SpecPath == InitP /\ [][NextPath]_vars

\* FtpDownloader.start attempts while the size lookups of updateFileSizes are
\* outstanding: a symlink entry has the size of the link (or none, which the
\* size check treats like 0) until its lookup calls back.
InitS ==
    /\ InitDownloader
    /\ countMax = 1
    /\ InitPure
    /\ tPool = <<>>
    /\ tListeners = <<>>
    /\ xfers = <<>>
    /\ eDownloading = [e \in Entries |-> FALSE]
    /\ eTransferred = [e \in Entries |-> 0]
    /\ eSize \in [Entries -> 0..TotalBytes]
    /\ \A e \in Entries : (e \in SymLinks) = (eSize[e] < TotalBytes)
    /\ tempFile = [e \in Entries |-> NoFile]
    /\ finalFile = [e \in Entries |-> NoFile]
    /\ fdTable = [d \in 1..MaxFd |-> 0]
    /\ sizeLookup = [e \in Entries |-> e \in SymLinks]

NextSymlink ==
    \/ NextTransfer
    \/ SizeLookup

SpecSymlink == InitS /\ [][NextSymlink]_vars

\* The Downloader with a server on which every ftp.get that is not answered
\* with an error is answered with success.
SpecDrain == Spec /\ WF_vars(GetSuccess)

\* The Downloader with the runtime's timers: an armed timer fires.
SpecLive == Spec /\ WF_vars(TimerFire)

\* ------------------------------------------------------------------ properties

\* C1: in every reachable state the number of queue entries whose downloading
\* flag is true is at most countMax, whatever the queue length.
C1_DownloadingAtMostCap == DownloadingCount(DState) <= countMax

\* C1 witness: a queue longer than the cap, saturated, after an attempt failed.
C1_Witness ==
    /\ Len(downloadQueue) > countMax
    /\ DownloadingCount(DState) = countMax
    /\ \E a \in 1..Len(attempts) : attempts[a].term

\* C2: never more than countMax transfer attempts are in flight (started, and
\* neither their get callback nor their error handler has run).
C2_InFlightAtMostCap == Cardinality(InFlight(DState)) <= countMax

\* C3: a session is owned by at most one in-flight transfer: it is not in the
\* pool while a transfer uses it, not twice in the pool, not used by two
\* in-flight transfers.
C3_SessionSingleOwner ==
    /\ \A i, j \in 1..Len(ftpConnectionPool) :
          i # j => ftpConnectionPool[i] # ftpConnectionPool[j]
    /\ \A a \in InFlight(DState) : \A i \in 1..Len(ftpConnectionPool) :
          ftpConnectionPool[i] # attempts[a].ftp
    /\ \A a, b \in InFlight(DState) : a # b => attempts[a].ftp # attempts[b].ftp

\* C4: every borrowed session is returned to the pool exactly once per
\* borrow: once its attempt has ended, once and never twice.
C4_ReturnedExactlyOnce ==
    \A a \in 1..Len(attempts) :
        /\ attempts[a].returns <= 1
        /\ attempts[a].term => attempts[a].returns = 1

\* C8: startSync is never entered while an earlier cycle's scan or transfers
\* are outstanding: at most one scan-and-drain cycle is active.
C8_OneCycleAtATime == ~overlapStart

\* C9: a sync requested while Syncing is not lost: the completion that follows
\* starts a scan and does not arm the timer, so the orchestrator is never Idle
\* with the request unserved.
C9_RequestNotLost ==
    /\ ~armedWithRequest
    /\ requestPending => downloading

\* C9 witness: a request arrived during a cycle and the completion of that
\* cycle started the next scan.
C9_Witness ==
    /\ servedRequest
    /\ Len(scans) >= 2
    /\ downloading
    /\ ~requestPending

\* C10: a cycle that had entries to download is followed immediately by a new
\* scan: its completion never arms the polling timer.
C10_WorkRescansAtOnce == ~armedAfterWork

\* C5: for one FtpDownloader.start attempt, whatever termination signals
\* arrive and in whatever order, finalize runs once and the completion
\* callback is invoked exactly once, with (error-or-none, entry).
C5_FinalizeExactlyOnce ==
    \A a \in 1..Len(xfers) :
        /\ xfers[a].finalized <= 1
        /\ xfers[a].cbCount <= 1
        /\ xfers[a].calls > 0 =>
              /\ xfers[a].finalized = 1
              /\ xfers[a].cbCount = 1
              /\ xfers[a].cbEntry = xfers[a].file

\* C5 witness: an attempt that received two termination signals or more and
\* whose callback was invoked once.
C5_Witness ==
    \E a \in 1..Len(xfers) : xfers[a].calls = 2 /\ xfers[a].cbCount = 1

\* The attempts whose finalize runs in this step.
FinalizedNow(a) ==
    /\ xfers'[a].called
    /\ a <= Len(xfers) => ~xfers[a].called

\* C6: a transfer whose temp file is smaller than the entry's size at finalize
\* is not renamed, its temp file is left as it is and its callback gets an
\* error; a final file appears only from a finalize without error whose temp
\* file holds at least entry.size bytes.
C6_NoPublishWhenIncomplete ==
    [][\A a \in 1..Len(xfers') :
         LET e == xfers'[a].file IN
         /\ (FinalizedNow(a) /\ xfers'[a].fd # 0 /\ Len(tempFile[e]) < eSize[e]) =>
               /\ finalFile'[e] = finalFile[e]
               /\ tempFile'[e] = tempFile[e]
               /\ xfers'[a].cbErr # NoErr
         /\ (FinalizedNow(a) /\ finalFile'[e] # finalFile[e]) =>
               /\ xfers'[a].cbErr = NoErr
               /\ Len(tempFile[e]) >= eSize[e]
               /\ finalFile'[e] = tempFile[e]
               /\ tempFile'[e] = NoFile
         /\ (finalFile'[e] # finalFile[e]) =>
               \E b \in 1..Len(xfers') : xfers'[b].file = e /\ FinalizedNow(b)]_vars

\* C6 witness: an attempt ended as incomplete and its partial temp file is in
\* place, unpublished.
C6_Witness ==
    \E a \in 1..Len(xfers) :
        /\ xfers[a].cbErr = "incomplete"
        /\ tempFile[xfers[a].file] # NoFile
        /\ Len(tempFile[xfers[a].file]) < eSize[xfers[a].file]
        /\ Len(tempFile[xfers[a].file]) > 0
        /\ finalFile[xfers[a].file] = NoFile

\* C7: resume. An attempt started on a temp file of K < TotalBytes bytes
\* requests the stream at offset skipBytes = K and sets entry.transferred to K
\* at once; when it completes cleanly it has appended TotalBytes - K bytes and
\* the published file holds TotalBytes bytes.
C7_Resume ==
    \A a \in 1..Len(xfers) :
        LET e == xfers[a].file IN
        (xfers[a].fd # 0 /\ xfers[a].k0 < TotalBytes) =>
            /\ xfers[a].skipBytes = xfers[a].k0
            /\ xfers[a].tr0 = xfers[a].k0
            /\ (xfers[a].cbCount = 1 /\ xfers[a].cbErr = NoErr) =>
                  /\ finalFile[e] # NoFile
                  /\ Len(finalFile[e]) - xfers[a].k0 = TotalBytes - xfers[a].k0
                  /\ Len(finalFile[e]) = TotalBytes

\* C11: an entry leaves the download queue only through a successful transfer:
\* every FtpFile a listing queued is in the queue or in the completed list,
\* never in both, and an entry of the queue that is marked downloading has a
\* transfer in flight (after a failure it is unmarked, or dispatched again).
C11_LeavesQueueOnlyOnSuccess ==
    \A f \in 1..nFiles :
        LET inQueue == \E i \in 1..Len(downloadQueue) : downloadQueue[i] = f
            inDone  == \E i \in 1..Len(completedList) : completedList[i] = f
        IN /\ inQueue \/ inDone
           /\ inDone => ~inQueue
           /\ (inQueue /\ f \in fileDownloading) =>
                 \E a \in InFlight(DState) : attempts[a].file = f

\* The work bound is used up: no further scan can be counted.
Exhausted == Len(scans) + Len(attempts) + nEvents >= MaxWork

\* C12: no scan error stops the system. The step in which a scan fails ends
\* the cycle: it starts the next scan at once when a sync was requested
\* meanwhile, and otherwise leaves the orchestrator Idle with the polling
\* timer armed; the orchestrator is never Idle without an armed timer once it
\* has scanned; and every failed scan is followed by a later scan.
C12_ScanErrorRecovers ==
    /\ [](Len(scans) > 0 /\ ~downloading => pollingTimeoutId \in timers)
    /\ [][\A k \in 1..Len(scans) :
            (scans'[k].failed /\ ~scans[k].failed) =>
               /\ syncRequestedWhileDownloading =>
                     (Len(scans') > Len(scans) /\ downloading')
               /\ ~syncRequestedWhileDownloading =>
                     (~downloading' /\ pollingTimeoutId' \in timers'
                        /\ pollingTimeoutId' \notin timers)]_vars
    /\ \A n \in 1..MaxWork :
          (Len(scans) >= n /\ scans[n].failed) ~> (Len(scans) > n \/ Exhausted)

\* C12 witness: a scan failed with no sync requested, and a later scan started.
C12_Witness ==
    \E k \in 1..Len(scans) :
        scans[k].failed /\ Len(scans) > k /\ ~servedRequest /\ ~Exhausted

\* The node addresses of a listing: the sibling indices from the root down.
Addresses == UNION {[1..k -> 1..MaxWidth] : k \in 1..(MaxNest + 1)}

RECURSIVE NodeExists(_, _)
NodeExists(data, p) ==
    /\ p[1] <= Len(data)
    /\ Len(p) > 1 =>
          /\ data[p[1]].type = "dir"
          /\ data[p[1]].hasChildren
          /\ NodeExists(data[p[1]].children, Tail(p))

RECURSIVE NodeAt(_, _)
NodeAt(data, p) ==
    IF Len(p) = 1 THEN data[p[1]] ELSE NodeAt(data[p[1]].children, Tail(p))

\* p comes before q in depth-first order following listing order.
LexLess(p, q) ==
    \E k \in 1..Len(p) :
        /\ k <= Len(q)
        /\ \A j \in 1..(k - 1) : p[j] = q[j]
        /\ p[k] < q[k]

RECURSIVE InOrder(_)
InOrder(S) ==
    IF S = {} THEN <<>>
    ELSE LET m == CHOOSE p \in S : \A q \in S \ {p} : LexLess(p, q)
         IN <<m>> \o InOrder(S \ {m})

\* The entry of the file or symlink node at address p: its directory is the
\* separator-terminated concatenation of its ancestors' names.
EntryAt(data, p) ==
    [relativeDirectory |->
        [k \in 1..(2 * (Len(p) - 1)) |-> IF k % 2 = 0 THEN "/" ELSE Names[p[(k + 1) \div 2]]],
     name |-> Names[p[Len(p)]],
     type |-> NodeAt(data, p).type]

IsPrefix(pre, str) == Len(pre) <= Len(str) /\ SubSeq(str, 1, Len(pre)) = pre

\* C14: getDestinationDirectory returns, for the first rule whose
\* separator-terminated remotePath is a prefix of relativeDirectory, the
\* rule's localPath root followed by the rest of relativeDirectory; with no
\* such rule, the default root followed by relativeDirectory; and the rule it
\* uses never matches on a part of a directory name.
C14_PathMapping ==
    gdRan =>
        LET term(i)  == appendSlash(gdMappings[i].remotePath)
            matching == {i \in 1..Len(gdMappings) : IsPrefix(term(i), gdDirectory)}
        IN /\ matching = {} =>
                 /\ gdRule = 0
                 /\ gdResult = appendSlash(localSyncRoot) \o gdDirectory
           /\ matching # {} =>
                 /\ gdRule \in matching
                 /\ \A j \in matching : gdRule <= j
                 /\ gdResult = appendSlash(gdMappings[gdRule].localPath)
                        \o SubSeq(gdDirectory, Len(term(gdRule)) + 1, Len(gdDirectory))
           /\ gdRule # 0 =>
                 LET r == gdMappings[gdRule].remotePath IN
                 /\ IsPrefix(r, gdDirectory)
                 /\ (Len(r) > 0 /\ r[Len(r)] # "/") =>
                       (Len(gdDirectory) > Len(r) /\ gdDirectory[Len(r) + 1] = "/")

\* C14 witness: the first rule is written as a part of the directory's first
\* name and is passed over, the second rule is used and a remainder of
\* relativeDirectory follows its localPath.
C14_Witness ==
    /\ gdRan
    /\ gdRule = 2
    /\ Len(gdMappings[1].remotePath) > 0
    /\ IsPrefix(gdMappings[1].remotePath, gdDirectory)
    /\ Len(gdResult) > Len(appendSlash(gdMappings[2].localPath))

\* C15: saturation. Between handlers, either the number of transfers in
\* flight equals countMax or the queue holds no entry with downloading false.
C15_Saturated ==
    \/ Cardinality(InFlight(DState)) = countMax
    \/ NotDownloadingIdx(DState) = {}

\* C16: the orchestrator is Idle only when no transfer is in flight, and the
\* queue is not replaced under a running transfer: every transfer in flight
\* is for an entry of the queue (or one already completed).
C16_IdleOnlyWhenNothingInFlight ==
    /\ ~downloading => InFlight(DState) = {}
    /\ \A a \in InFlight(DState) :
          \/ \E i \in 1..Len(downloadQueue) : downloadQueue[i] = attempts[a].file
          \/ \E i \in 1..Len(completedList) : completedList[i] = attempts[a].file

\* C17: once finalize has run for an attempt, a data chunk of that attempt
\* (its 'data' handler running) neither writes to a temp file nor changes
\* entry.transferred.
C17_NoWriteAfterFinalize ==
    [][\A a \in 1..Len(xfers) :
         (xfers[a].called /\ xfers'[a].bytesRead # xfers[a].bytesRead) =>
            /\ tempFile' = tempFile
            /\ eTransferred' = eTransferred]_vars

\* C18: with unchanged remote content, after every step the temp file of an
\* entry holds a prefix of the remote file's bytes, and while it exists its
\* size does not decrease.
C18_TempFileIsGrowingPrefix ==
    [][\A e \in Entries :
         /\ tempFile'[e] # NoFile => IsPrefix(tempFile'[e], Remote(e))
         /\ (tempFile[e] # NoFile /\ tempFile'[e] # NoFile) =>
               Len(tempFile'[e]) >= Len(tempFile[e])]_vars

\* The drain has ended: the queue is empty, nothing is in flight and the
\* completion has been handled (Idle, or the next scan running).
Drained ==
    /\ downloadQueue = <<>>
    /\ InFlight(DState) = {}
    /\ ~downloading \/ ScanOutstanding(DState)

\* C19: drain termination. When every get is answered and none fails for
\* ever, a cycle that queued entries reaches the empty queue with nothing in
\* flight and its completion handled; an entry is in the queue once and,
\* once removed, does not come back.
C19_DrainTerminates ==
    /\ [](\A i, j \in 1..Len(downloadQueue) :
             i # j => downloadQueue[i] # downloadQueue[j])
    /\ [][\A f \in 1..nFiles :
            (\A i \in 1..Len(downloadQueue) : downloadQueue[i] # f) =>
               (\A i \in 1..Len(downloadQueue') : downloadQueue'[i] # f)]_vars
    /\ (downloadQueue # <<>>) ~> (Drained \/ Exhausted)

\* C19 witness: a cycle queued two entries, an attempt failed and was
\* repeated, both entries were removed and the orchestrator is Idle.
C19_Witness ==
    /\ Drained
    /\ ~downloading
    /\ nFiles = 2
    /\ Len(completedList) = 2
    /\ Len(attempts) >= 3
    /\ ~Exhausted

\* C20: a symlink entry whose size lookup succeeded is not published with
\* fewer bytes than the link target's size, whenever the lookup called back.
C20_SymlinkNotPublishedShort ==
    \A e \in SymLinks :
        (~sizeLookup[e] /\ eSize[e] = TotalBytes /\ finalFile[e] # NoFile) =>
            Len(finalFile[e]) >= TotalBytes

====
